---------------------------- MODULE Spec2Model ----------------------------
(***************************************************************************)
(* Model of the validation and submission state machine of the job         *)
(* application form, src/src/components/CandidateForm.tsx.                 *)
(*                                                                         *)
(* Text values are sequences of one-character strings, so that trim() and  *)
(* the two regular expressions are computed character by character.  A     *)
(* File is a record of its size and MIME type, null is the record Null.    *)
(* An absent (or undefined) FormErrors entry is the string Undefined.      *)
(***************************************************************************)
EXTENDS Integers, Sequences, FiniteSets

VARIABLES
    formData,      \* useState<FormData>, lines 27-33
    errors,        \* useState<FormErrors>, line 35
    isSubmitting,  \* useState(false), line 36
    isSubmitted,   \* useState(false), line 37
    pending,       \* handleSubmit calls suspended at the await of line 128
    notification   \* the toast() the latest step emitted, "none" if it emitted none

vars == <<formData, errors, isSubmitting, isSubmitted, pending, notification>>

----------------------------------------------------------------------------
(* Bounds of the model *)

\* spaces put before and after a name
MaxPad == 1
\* bytes over the size limit that a chosen file may have
MaxOver == 1
\* cap on the handleSubmit calls suspended at once
MaxPending == 3

(* Constants of the program *)

MinNameLen == 2
MinPhoneLen == 10
maxWords == 500
MiB == 1024 * 1024
MaxFileSize == 10 * 1024 * 1024

Undefined == "undefined"
Null == [kind |-> "null"]

TextFields == {"fullName", "email", "phoneNumber", "coverLetter"}
RequiredFields == {"fullName", "email", "phoneNumber", "resume"}
Fields == RequiredFields \cup {"coverLetter"}

allowedTypes ==
    { "application/pdf",
      "application/vnd.openxmlformats-officedocument.wordprocessingml.document",
      "application/msword" }

----------------------------------------------------------------------------
(* Character classes of the regular expressions *)

\* \s, as far as the inputs below use it
WhiteSpace == {" ", "\t", "\n"}
\* \d
Digits == {"0", "1", "2", "3", "4", "5", "6", "7", "8", "9"}
\* [\d\s\-\(\)]
PhoneChars == Digits \cup WhiteSpace \cup {"-", "(", ")"}

\* [^\s@]
NotSpaceNorAt(c) == c \notin WhiteSpace \cup {"@"}

\* String.prototype.trim()
RECURSIVE TrimLeft(_)
TrimLeft(s) ==
    IF s # <<>> /\ Head(s) \in WhiteSpace THEN TrimLeft(Tail(s)) ELSE s

RECURSIVE TrimRight(_)
TrimRight(s) ==
    IF s # <<>> /\ s[Len(s)] \in WhiteSpace
    THEN TrimRight(SubSeq(s, 1, Len(s) - 1))
    ELSE s

trim(s) == TrimRight(TrimLeft(s))

\* /^[^\s@]+@[^\s@]+\.[^\s@]+$/.test(email)
validateEmail(email) ==
    \E i, j \in 1..Len(email) :
        /\ 1 < i /\ i + 1 < j /\ j < Len(email)
        /\ email[i] = "@"
        /\ email[j] = "."
        /\ \A k \in 1..(j - 1) \ {i} : NotSpaceNorAt(email[k])
        /\ \A k \in (j + 1)..Len(email) : NotSpaceNorAt(email[k])

\* /^\+?[\d\s\-\(\)]{10,}$/.test(phone)
validatePhoneNumber(phone) ==
    LET rest == IF phone # <<>> /\ Head(phone) = "+" THEN Tail(phone) ELSE phone
    IN  /\ Len(rest) >= MinPhoneLen
        /\ \A k \in 1..Len(rest) : rest[k] \in PhoneChars

\* formData.coverLetter.trim().split(/\s+/).filter(word => word.length > 0).length
\* : the number of maximal runs of non-whitespace characters
wordCount(coverLetter) ==
    Cardinality({ i \in 1..Len(coverLetter) :
                    /\ coverLetter[i] \notin WhiteSpace
                    /\ (i = 1 \/ coverLetter[i - 1] \in WhiteSpace) })

----------------------------------------------------------------------------
(* validateField, lines 50-81: one operator per case of the switch.  The    *)
(* callers pass a string for the text fields and a File or null for the    *)
(* resume, so the typeof / instanceof tests are true wherever they are     *)
(* reached with a truthy value.                                            *)

validateFullName(value) ==
    IF value = <<>> \/ Len(trim(value)) < MinNameLen
    THEN "Full name must be at least 2 characters"
    ELSE Undefined

validateEmailField(value) ==
    IF value = <<>> THEN "Email is required"
    ELSE IF ~validateEmail(value) THEN "Please enter a valid email address"
    ELSE Undefined

validatePhoneField(value) ==
    IF value = <<>> THEN "Phone number is required"
    ELSE IF ~validatePhoneNumber(value)
         THEN "Please enter a valid phone number with country code"
    ELSE Undefined

validateResume_SizeInclusive(value) ==
    IF value = Null THEN "Resume is required"
    ELSE IF value.size >= MaxFileSize THEN "File size must be less than 10MB"
    ELSE IF value.type \notin allowedTypes THEN "Only PDF and DOCX files are allowed"
    ELSE Undefined

validateResume(value) ==
    IF value = Null THEN "Resume is required"
    ELSE IF value.size > MaxFileSize THEN "File size must be less than 10MB"
    ELSE IF value.type \notin allowedTypes THEN "Only PDF and DOCX files are allowed"
    ELSE Undefined

validateField(name, value) ==
    CASE name = "fullName"    -> validateFullName(value)
      [] name = "email"       -> validateEmailField(value)
      [] name = "phoneNumber" -> validatePhoneField(value)
      [] name = "resume"      -> validateResume(value)
      [] OTHER                -> Undefined

----------------------------------------------------------------------------
(* validateForm, lines 100-110 *)

NoErrors == [f \in Fields |-> Undefined]

newErrors_SkipResume(data) ==
    [f \in Fields |->
        IF f \in RequiredFields \ {"resume"} THEN validateField(f, data[f])
        ELSE Undefined]

\* lines 101-106: the four required entries; coverLetter is never assigned
newErrors(data) ==
    [f \in Fields |->
        IF f \in RequiredFields THEN validateField(f, data[f]) ELSE Undefined]

validateForm_AlwaysTrue(errs) == TRUE

\* line 109: !Object.values(newErrors).some(error => error)
validateForm(errs) == ~ \E f \in Fields : errs[f] # Undefined

----------------------------------------------------------------------------
(* What is rendered, lines 149-174 and 176-435 *)

\* line 149: the form is replaced by the confirmation card once isSubmitted
FormRendered == ~isSubmitted

SubmitEnabled_NeverDisabled == FormRendered

\* line 419: disabled={isSubmitting}; a disabled submit button submits nothing
SubmitEnabled == FormRendered /\ ~isSubmitting

\* The status the three states of the specification name
SubmissionStatus ==
    IF isSubmitted THEN "Submitted"
    ELSE IF isSubmitting THEN "Submitting"
    ELSE "Idle"

----------------------------------------------------------------------------
(* The values the user enters *)

Spaces(n) == [i \in 1..n |-> " "]
Fives(n) == [i \in 1..n |-> "5"]

NameInputs ==
    { Spaces(p) \o core \o Spaces(p) :
        core \in {<<>>, <<"A">>, <<"A", "l">>}, p \in 0..MaxPad }

EmailInputs ==
    { <<>>,
      <<"a", "@", "b">>,
      <<"a", "@", "b", ".", "c", "o", "m">>,
      <<"a", " ", "b", "@", "c", ".", "d">> }

PhoneInputs ==
    { <<>>,
      Fives(MinPhoneLen - 1),
      Fives(MinPhoneLen),
      <<"+">> \o Fives(MinPhoneLen - 1),
      <<"+", "1", " ", "(", "5", "5", "5", ")", " ",
        "1", "2", "3", "-", "4", "5", "6", "7">> }

\* maxWords + 1 one-letter words
LongLetter == [i \in 1..(2 * maxWords + 1) |-> IF i % 2 = 1 THEN "w" ELSE " "]

LetterInputs == { <<>>, LongLetter }

TextInputs(name) ==
    CASE name = "fullName"    -> NameInputs
      [] name = "email"       -> EmailInputs
      [] name = "phoneNumber" -> PhoneInputs
      [] name = "coverLetter" -> LetterInputs

FileSizes == {MiB} \cup { MaxFileSize + d : d \in 0..MaxOver }

FileTypes == allowedTypes \cup {"image/png"}

Files == [kind : {"file"}, size : FileSizes, type : FileTypes]

\* e.target.files: no file or one
FileLists == {<<>>} \cup { <<f>> : f \in Files }

----------------------------------------------------------------------------
(* Initial state, lines 27-37 *)

InitialFormData ==
    [fullName |-> <<>>, email |-> <<>>, phoneNumber |-> <<>>,
     resume |-> Null, coverLetter |-> <<>>]

Init ==
    /\ formData = InitialFormData
    /\ errors = NoErrors
    /\ isSubmitting = FALSE
    /\ isSubmitted = FALSE
    /\ pending = 0
    /\ notification = "none"

----------------------------------------------------------------------------
(* Handlers *)

handleInputChange_DropOthers(name, value) ==
    /\ formData' = [formData EXCEPT ![name] = value]
    /\ errors' = [NoErrors EXCEPT ![name] = validateField(name, value)]
    /\ notification' = "none"
    /\ UNCHANGED <<isSubmitting, isSubmitted, pending>>

handleInputChange_Stale(name, value) ==
    /\ formData' = [formData EXCEPT ![name] = value]
    /\ errors' = [errors EXCEPT ![name] = validateField(name, formData[name])]
    /\ notification' = "none"
    /\ UNCHANGED <<isSubmitting, isSubmitted, pending>>

\* lines 83-89
handleInputChange(name, value) ==
    /\ formData' = [formData EXCEPT ![name] = value]
    /\ errors' = [errors EXCEPT ![name] = validateField(name, value)]
    /\ notification' = "none"
    /\ UNCHANGED <<isSubmitting, isSubmitted, pending>>

\* onChange of the four text controls, lines 296, 312, 327, 404: an input
\* event carries a value other than the one shown
ChangeText ==
    \E name \in TextFields : \E value \in TextInputs(name) :
        /\ FormRendered
        /\ value # formData[name]
        /\ handleInputChange(name, value)

\* lines 91-94; the file input is rendered while no resume is held, line 343
handleFileUpload ==
    \E files \in FileLists :
        /\ FormRendered
        /\ formData.resume = Null
        /\ handleInputChange("resume", IF files = <<>> THEN Null ELSE files[1])

\* lines 96-98; the remove button is rendered while a resume is held, line 375
removeFile ==
    /\ FormRendered
    /\ formData.resume # Null
    /\ handleInputChange("resume", Null)

\* lines 112-124: handleSubmit up to its await
handleSubmit ==
    /\ SubmitEnabled
    /\ errors' = newErrors(formData)
    /\ IF validateForm(newErrors(formData))
       THEN /\ pending < MaxPending
            /\ isSubmitting' = TRUE
            /\ pending' = pending + 1
            /\ notification' = "none"
       ELSE /\ notification' = "ValidationError"
            /\ UNCHANGED <<isSubmitting, pending>>
    /\ UNCHANGED <<formData, isSubmitted>>

\* lines 128-134 and 141-143: the awaited promise resolves
SubmitResolved ==
    /\ pending > 0
    /\ pending' = pending - 1
    /\ isSubmitted' = TRUE
    /\ notification' = "SubmissionSucceeded"
    /\ isSubmitting' = FALSE
    /\ UNCHANGED <<formData, errors>>

SubmitRejected_NoFinally ==
    /\ pending > 0
    /\ pending' = pending - 1
    /\ notification' = "SubmissionFailed"
    /\ UNCHANGED <<formData, errors, isSubmitted, isSubmitting>>

SubmitRejected_ClearsDraft ==
    /\ pending > 0
    /\ pending' = pending - 1
    /\ notification' = "SubmissionFailed"
    /\ isSubmitting' = FALSE
    /\ formData' = InitialFormData
    /\ UNCHANGED <<errors, isSubmitted>>

\* lines 135-143: the awaited promise rejects (the timer of line 128 never
\* does; a transport put in its place may)
SubmitRejected ==
    /\ pending > 0
    /\ pending' = pending - 1
    /\ notification' = "SubmissionFailed"
    /\ isSubmitting' = FALSE
    /\ UNCHANGED <<formData, errors, isSubmitted>>

\* the rest of handleSubmit, run when the promise of line 128 settles
SubmitSettled == SubmitResolved \/ SubmitRejected

\* line 164: onClick of "Submit Another Application"
SubmitAnother ==
    /\ isSubmitted
    /\ isSubmitted' = FALSE
    /\ notification' = "none"
    /\ UNCHANGED <<formData, errors, isSubmitting, pending>>

Next ==
    \/ ChangeText
    \/ handleFileUpload
    \/ removeFile
    \/ handleSubmit
    \/ SubmitResolved
    \/ SubmitRejected
    \/ SubmitAnother

Spec == Init /\ [][Next]_vars

\* the timer of line 128 fires, and a transport answers: a suspended
\* handleSubmit is resumed
FairSpec == Spec /\ WF_vars(SubmitSettled)

TypeOK ==
    /\ formData.fullName \in NameInputs
    /\ formData.email \in EmailInputs
    /\ formData.phoneNumber \in PhoneInputs
    /\ formData.coverLetter \in LetterInputs
    /\ formData.resume \in Files \cup {Null}
    /\ errors \in [Fields -> STRING]
    /\ isSubmitting \in BOOLEAN /\ isSubmitted \in BOOLEAN
    /\ pending \in 0..MaxPending
    /\ notification \in
         {"none", "ValidationError", "SubmissionSucceeded", "SubmissionFailed"}

----------------------------------------------------------------------------
(* Properties *)

\* all four required-field validators pass on a draft
AllRequiredValid(data) ==
    \A f \in RequiredFields : validateField(f, data[f]) = Undefined

\* a step of handleInputChange, from whichever control
FieldMutation == ChangeText \/ handleFileUpload \/ removeFile

\* C1: submit() invoked in Idle moves the status to Submitting and starts the
\* transport exactly when the four required-field validators pass on the
\* current draft; otherwise the status stays Idle, no transport is started
\* and a ValidationError notification is emitted.  coverLetter has no part
\* in the condition.
C1_SubmissionGate ==
    [][ handleSubmit =>
          /\ SubmissionStatus = "Idle"
          /\ IF AllRequiredValid(formData)
             THEN /\ SubmissionStatus' = "Submitting"
                  /\ pending' = pending + 1
             ELSE /\ SubmissionStatus' = "Idle"
                  /\ pending' = pending
                  /\ notification' = "ValidationError" ]_vars

\* a submission under way whose cover letter has more than 500 words
C1_Witness ==
    /\ SubmissionStatus = "Submitting"
    /\ pending = 1
    /\ wordCount(formData.coverLetter) > maxWords

\* C2: at most one transport invocation is outstanding at a time, and no
\* step taken while Submitting starts another.
C2_SingleSubmission ==
    /\ [](pending <= 1)
    /\ [][ SubmissionStatus = "Submitting" => pending' <= pending ]_vars

\* Submitting, with a draft that a submit() would accept
C2_Witness ==
    /\ SubmissionStatus = "Submitting"
    /\ pending = 1
    /\ AllRequiredValid(formData)
    /\ errors = NoErrors

\* C3: leaving Submitted ("Submit Another Application") sets the status to
\* Idle, clears the draft to its initial empty value and clears the
\* FieldErrorSet.
C3_ResetClears ==
    [][ (SubmissionStatus = "Submitted" /\ SubmissionStatus' # "Submitted") =>
          /\ SubmissionStatus' = "Idle"
          /\ formData' = InitialFormData
          /\ errors' = NoErrors ]_vars

\* C4: when the transport fails while Submitting, the status returns to
\* Idle, the draft and the FieldErrorSet are unchanged, a SubmissionFailed
\* notification is emitted and submit() is accepted again.
C4_FailureRecovers ==
    [][ (SubmissionStatus = "Submitting" /\ SubmitRejected) =>
          /\ SubmissionStatus' = "Idle"
          /\ formData' = formData
          /\ errors' = errors
          /\ notification' = "SubmissionFailed"
          /\ pending' = 0
          /\ SubmitEnabled' ]_vars

\* the state a failed submission leaves
C4_Witness ==
    /\ notification = "SubmissionFailed"
    /\ SubmissionStatus = "Idle"
    /\ AllRequiredValid(formData)

\* the resume validator's result, as the specification states it
ResumeMessage(file) ==
    IF file = Null THEN "Resume is required"
    ELSE IF file.size > 10 * 1024 * 1024 THEN "File size must be less than 10MB"
    ELSE IF file.type \notin
              { "application/pdf",
                "application/vnd.openxmlformats-officedocument.wordprocessingml.document",
                "application/msword" }
         THEN "Only PDF and DOCX files are allowed"
    ELSE Undefined

\* C6: whenever the resume is validated (a file is chosen or removed, or the
\* form is submitted) the message stored for it is "Resume is required" for
\* no file, else the size message for more than 10 MiB, else the type
\* message for a type other than PDF, DOCX and DOC, else none.
C6_ResumeValidator ==
    [][ (handleFileUpload \/ removeFile \/ handleSubmit) =>
          errors'.resume = ResumeMessage(formData'.resume) ]_vars

\* an oversized file of a disallowed type holds the size message
C6_Witness ==
    /\ formData.resume # Null
    /\ formData.resume.size > MaxFileSize
    /\ formData.resume.type \notin allowedTypes
    /\ errors.resume = "File size must be less than 10MB"

\* C7: a field mutation sets one draft field and that field's error entry
\* to the validator's result for the new value, and leaves the other draft
\* fields, the other error entries and the submission status unchanged; a
\* step that changes more than one error entry is a submission attempt.
C7_FieldMutationFrame ==
    /\ [][ FieldMutation =>
             /\ \E name \in Fields :
                  /\ formData' = [formData EXCEPT ![name] = formData'[name]]
                  /\ errors' = [errors EXCEPT
                                  ![name] = validateField(name, formData'[name])]
             /\ SubmissionStatus' = SubmissionStatus
             /\ UNCHANGED <<isSubmitting, isSubmitted, pending>> ]_vars
    /\ [][ Cardinality({ f \in Fields : errors'[f] # errors[f] }) > 1 =>
             handleSubmit ]_vars

\* a field was edited to a valid value while another keeps its error
C7_Witness ==
    /\ notification = "none"
    /\ errors.email # Undefined
    /\ errors.resume # Undefined
    /\ formData.fullName # <<>>
    /\ errors.fullName = Undefined

\* C8: while Submitting the status changes only when the transport settles,
\* Submitted is entered only from Submitting on transport success, every
\* Submitting state is followed by Submitted or Idle, and by Submitted in a
\* behaviour in which the transport never fails.
C8_NoCancellation ==
    /\ [][ (SubmissionStatus = "Submitting" /\ SubmissionStatus' # "Submitting") =>
             SubmitSettled ]_vars
    /\ [][ (SubmissionStatus # "Submitted" /\ SubmissionStatus' = "Submitted") =>
             (SubmissionStatus = "Submitting" /\ SubmitResolved) ]_vars
    /\ (SubmissionStatus = "Submitting") ~> (SubmissionStatus \in {"Submitted", "Idle"})
    /\ ([](notification # "SubmissionFailed")) =>
          ((SubmissionStatus = "Submitting") ~> (SubmissionStatus = "Submitted"))

\* Submitted, entered on transport success
C8_Witness ==
    /\ SubmissionStatus = "Submitted"
    /\ notification = "SubmissionSucceeded"
    /\ pending = 0

\* C9 as stated: in every Submitting state the four required fields of the
\* current draft are valid and no required field holds an error message.
C9_ValidWhileSubmitting ==
    SubmissionStatus = "Submitting" =>
        /\ AllRequiredValid(formData)
        /\ \A f \in RequiredFields : errors[f] = Undefined

\* C9 as amended: in the state in which Submitting is entered, the four
\* required fields of the draft are valid and the FieldErrorSet is empty.
C9_ValidOnEnteringSubmitting ==
    [][ (SubmissionStatus # "Submitting" /\ SubmissionStatus' = "Submitting") =>
          /\ AllRequiredValid(formData')
          /\ errors' = NoErrors ]_vars

\* Submitting has just been entered: the draft is valid and no error is held
C9_Witness ==
    /\ SubmissionStatus = "Submitting"
    /\ pending = 1
    /\ notification = "none"
    /\ AllRequiredValid(formData)
    /\ errors = NoErrors
    /\ formData.resume.size = MaxFileSize

\* C10: each required field's error entry is absent or the validator's
\* message for the field's current value, the coverLetter entry is absent,
\* and a present entry implies that submit() would be rejected.
C10_ErrorsNeverStale ==
    /\ \A f \in RequiredFields :
         errors[f] \in {Undefined, validateField(f, formData[f])}
    /\ errors.coverLetter = Undefined
    /\ (\E f \in RequiredFields : errors[f] # Undefined) =>
          ~validateForm(newErrors(formData))

\* an error shown for a field edited after a rejected submit
C10_Witness ==
    /\ errors.email = "Please enter a valid email address"
    /\ errors.fullName = "Full name must be at least 2 characters"
    /\ formData.fullName # <<>>
    /\ notification = "none"

=============================================================================
